---- MODULE Spec2Model ----
(***************************************************************************)
(* A model of the chat store of native-llama (src/src/store.js) and of the *)
(* part of the Chat component that calls it (src/src/App.jsx).             *)
(*                                                                         *)
(* The store is a zustand store wrapped in persist(): every set() is       *)
(* followed by a write of the whole state to localStorage.  JavaScript is  *)
(* single-threaded, so an action of the model is the code that runs        *)
(* between two suspension points (await fetch, await reader.read(), a      *)
(* timer) and is atomic.                                                   *)
(*                                                                         *)
(* Text is a sequence of tokens, each token a fragment of the real text;   *)
(* the concatenation of the tokens is the text the code sees.  A chunk     *)
(* boundary can fall between any two tokens.                               *)
(***************************************************************************)
EXTENDS Naturals, Integers, Sequences, FiniteSets

VARIABLES
  chats,          \* store.chats: sequence of chat records, newest first
  currentChatId,  \* store.currentChatId (NoChat models null)
  tokenSpeed,     \* store.tokenSpeed
  storage,        \* localStorage["chat-storage"], written after every set()
  ops,            \* the sendMessage invocations: locals and position of each
  uuid,           \* number of uuidv4() values issued so far
  clock,          \* Date.now(), in milliseconds since the page was loaded
  outcome,        \* how the last step ended: "" (it returned), the message of
                  \* the error it threw to its caller, or "hydrated"
  isSending,      \* Chat component state of the mounted Chat instance
  returned,       \* the value the last step returned to its caller (NoChat
                  \* models undefined)
  availableModels, \* store.availableModels
  loadingModels,  \* store.loadingModels
  apiError,       \* store.apiError: <<>> models null, <<m>> the message m
  fetches         \* the fetchModels invocations: position of each

vars == <<chats, currentChatId, tokenSpeed, storage, ops, uuid, clock, outcome,
          isSending, returned, availableModels, loadingModels, apiError,
          fetches>>

store == <<chats, currentChatId, tokenSpeed>>

catalog == <<availableModels, loadingModels, apiError>>

----------------------------------------------------------------------------
(* Bounds of the model.                                                    *)

MaxUuid == 5
MaxLines == 3
MaxTicks == 5
TickMs == 200
MaxFetches == 3
MaxRateTicks == 7
MaxAdded == 2
MaxChats == 2

(* Program constants.                                                      *)

DebounceWait == 200
SpeedInterval == 500

NoChat == 0
NoStorage == <<>>

----------------------------------------------------------------------------
(* Tokens of the response text.                                            *)

NL == "\n"
SP == " "
Open == "{\"message\":{\"content\":\""
Close == "\"}}"
Status == "{\"done\":true}"
ContentChars == {"a", "b"}

----------------------------------------------------------------------------
(* String and array primitives of JavaScript, on token sequences.          *)

RECURSIVE Join(_)
Join(toks) ==
  IF toks = <<>> THEN "" ELSE Head(toks) \o Join(Tail(toks))

(* buffer.indexOf('\n'), 1-based; 0 stands for the code's -1.              *)
IndexOf(buf, tok) ==
  IF \E i \in 1..Len(buf) : buf[i] = tok
  THEN CHOOSE i \in 1..Len(buf) :
         buf[i] = tok /\ \A j \in 1..(i - 1) : buf[j] # tok
  ELSE 0

RECURSIVE TrimStart(_)
TrimStart(toks) ==
  IF toks # <<>> /\ Head(toks) \in {SP, NL} THEN TrimStart(Tail(toks)) ELSE toks

RECURSIVE TrimEnd(_)
TrimEnd(toks) ==
  IF toks # <<>> /\ toks[Len(toks)] \in {SP, NL}
  THEN TrimEnd(SubSeq(toks, 1, Len(toks) - 1))
  ELSE toks

Trim(toks) == TrimEnd(TrimStart(toks))

(* JSON.parse(line) followed by parsed.message?.content.  ok is FALSE when *)
(* JSON.parse throws; content is "" when the record has no message.content *)
(* (undefined) or an empty one; length is content.length.                  *)
JSONParse(line) ==
  LET t == Trim(line)
      n == Len(t)
  IN  IF t = <<Status>>
      THEN [ok |-> TRUE, content |-> "", length |-> 0]
      ELSE IF /\ n >= 2
              /\ t[1] = Open
              /\ t[n] = Close
              /\ \A i \in 2..(n - 1) : t[i] \in ContentChars \cup {SP}
           THEN [ok |-> TRUE,
                 content |-> Join(SubSeq(t, 2, n - 1)),
                 length |-> n - 2]
           ELSE [ok |-> FALSE, content |-> "", length |-> 0]

(* 2^k, and 2^k modulo 1000.                                               *)
RECURSIVE Pow2(_)
Pow2(k) == IF k = 0 THEN 1 ELSE 2 * Pow2(k - 1)

RECURSIVE Pow2Mod(_)
Pow2Mod(k) == IF k = 0 THEN 1 ELSE (2 * Pow2Mod(k - 1)) % 1000

(* The binary exponent of the positive quotient num / den: the greatest f  *)
(* with 2^f <= num / den.                                                  *)
RECURSIVE ExponentUp(_, _, _)
ExponentUp(num, den, f) ==
  IF den * Pow2(f + 1) <= num THEN ExponentUp(num, den, f + 1) ELSE f

RECURSIVE ExponentDown(_, _, _)
ExponentDown(num, den, f) ==
  IF num * Pow2(-f) < den THEN ExponentDown(num, den, f - 1) ELSE f

Exponent(num, den) ==
  IF num >= den THEN ExponentUp(num, den, 0) ELSE ExponentDown(num, den, -1)

(* elapsedSeconds = (Date.now() - startTime) / 1000;                       *)
(* Math.round(tokenCount / elapsedSeconds)                                 *)
(* tokenCount is kept in quarter tokens (characters), elapsed in           *)
(* milliseconds; both divisions are divisions of doubles.  Math.round      *)
(* rounds a half up, and the quotient of the doubles is on the other side  *)
(* of a half than the exact quotient only when the exact quotient is       *)
(* n + 1/2: the double of elapsed / 1000 was then rounded up by d          *)
(* thousandths of its last place (r is what the 53-bit significand leaves  *)
(* modulo 1000), and the quotient falls below the double n + 1/2 when it   *)
(* is more than half a last place of the doubles under n + 1/2 short.      *)
TokensPerSecond(tokenCount, elapsedMs) ==
  LET n == (tokenCount * 250) \div elapsedMs
      F == Exponent(elapsedMs, 1000)
      r == ((elapsedMs % 1000) * Pow2Mod(52 - F)) % 1000
      d == 1000 - r
      E == IF n = 0 THEN -2 ELSE Exponent(n, 1)
      short == (2 * n + 1) * d * Pow2(IF F > E THEN F - E ELSE 0)
      half == elapsedMs * Pow2(IF E > F THEN E - F ELSE 0)
  IN  IF tokenCount * 500 # (2 * n + 1) * elapsedMs
      THEN (tokenCount * 500 + elapsedMs) \div (2 * elapsedMs)
      ELSE IF r <= 500 THEN n + 1
           ELSE IF short > half THEN n ELSE n + 1

----------------------------------------------------------------------------
(* The state updates passed to set().                                      *)

ChatIds(chs) == {chs[i].id : i \in 1..Len(chs)}

FindChat(chs, chatId) ==
  IF chatId \in ChatIds(chs)
  THEN chs[CHOOSE i \in 1..Len(chs) :
             chs[i].id = chatId /\ \A j \in 1..(i - 1) : chs[j].id # chatId]
  ELSE [id |-> NoChat]

(* A message is a JavaScript object: the sequence of its <<key, value>>    *)
(* pairs, in the order in which the keys were inserted.                    *)
HasKey(msg, key) == \E i \in 1..Len(msg) : msg[i][1] = key

(* msg[key], for a key the message has.                                    *)
Get(msg, key) == msg[CHOOSE i \in 1..Len(msg) : msg[i][1] = key][2]

(* { ...msg, [key]: value }: a key the message has keeps its place, a new  *)
(* key comes last.                                                         *)
Spread(msg, key, value) ==
  IF HasKey(msg, key)
  THEN [i \in 1..Len(msg) |-> IF msg[i][1] = key THEN <<key, value>> ELSE msg[i]]
  ELSE Append(msg, <<key, value>>)

IsStreaming(msg) == HasKey(msg, "isStreaming") /\ Get(msg, "isStreaming") = TRUE

(* An append that puts the message in front of the others.                 *)
AppendMessageFirst(chs, chatId, message) ==
  [i \in 1..Len(chs) |->
     IF chs[i].id = chatId
     THEN [chs[i] EXCEPT !.messages = <<message>> \o @]
     ELSE chs[i]]

AppendMessage(chs, chatId, message) ==
  [i \in 1..Len(chs) |->
     IF chs[i].id = chatId
     THEN [chs[i] EXCEPT !.messages = Append(@, message)]
     ELSE chs[i]]

(* A delta update that puts the chat back when the store has none.         *)
SetTextUpsert(chs, chatId, ts, text) ==
  IF chatId \in ChatIds(chs)
  THEN [i \in 1..Len(chs) |->
          IF chs[i].id = chatId
          THEN [chs[i] EXCEPT !.messages =
                  [j \in 1..Len(@) |->
                     IF Get(@[j], "timestamp") = ts
                     THEN Spread(@[j], "text", text)
                     ELSE @[j]]]
          ELSE chs[i]]
  ELSE Append(chs, [id |-> chatId, title |-> "New Chat", model |-> "",
                    messages |-> <<<<<<"text", text>>, <<"sender", "ai">>,
                                     <<"timestamp", ts>>,
                                     <<"isStreaming", TRUE>>>>>>,
                    createdAt |-> clock])

SetText(chs, chatId, ts, text) ==
  [i \in 1..Len(chs) |->
     IF chs[i].id = chatId
     THEN [chs[i] EXCEPT !.messages =
             [j \in 1..Len(@) |->
                IF Get(@[j], "timestamp") = ts THEN Spread(@[j], "text", text) ELSE @[j]]]
     ELSE chs[i]]

(* An error marking that keeps the partial text in front of the error.     *)
MarkErrorAppend(chs, chatId, ts, message) ==
  [i \in 1..Len(chs) |->
     IF chs[i].id = chatId
     THEN [chs[i] EXCEPT !.messages =
             [j \in 1..Len(@) |->
                IF Get(@[j], "timestamp") = ts
                THEN Spread(Spread(@[j], "text",
                                   Get(@[j], "text") \o "Error: " \o message),
                            "isStreaming", FALSE)
                ELSE @[j]]]
     ELSE chs[i]]

(* An error marking that takes the placeholder out and puts the error      *)
(* message, under the same key, at the end of the chat.                    *)
MarkErrorMoved(chs, chatId, ts, message) ==
  [i \in 1..Len(chs) |->
     IF chs[i].id = chatId
     THEN [chs[i] EXCEPT !.messages =
             SelectSeq(@, LAMBDA m : Get(m, "timestamp") # ts)
             \o [j \in 1..Len(SelectSeq(@, LAMBDA m : Get(m, "timestamp") = ts)) |->
                   Spread(Spread(SelectSeq(@, LAMBDA m : Get(m, "timestamp") = ts)[j],
                                 "text", "Error: " \o message),
                          "isStreaming", FALSE)]]
     ELSE chs[i]]

MarkError(chs, chatId, ts, message) ==
  [i \in 1..Len(chs) |->
     IF chs[i].id = chatId
     THEN [chs[i] EXCEPT !.messages =
             [j \in 1..Len(@) |->
                IF Get(@[j], "timestamp") = ts
                THEN Spread(Spread(@[j], "text", "Error: " \o message),
                            "isStreaming", FALSE)
                ELSE @[j]]]
     ELSE chs[i]]

ClearStreaming(chs, chatId, ts) ==
  [i \in 1..Len(chs) |->
     IF chs[i].id = chatId
     THEN [chs[i] EXCEPT !.messages =
             [j \in 1..Len(@) |->
                IF Get(@[j], "timestamp") = ts
                THEN Spread(@[j], "isStreaming", FALSE)
                ELSE @[j]]]
     ELSE chs[i]]

----------------------------------------------------------------------------
(* persist(..., { name: "chat-storage", getStorage: () => localStorage }). *)
(* No partialize option is given, so the whole state is written; there is  *)
(* no onRehydrateStorage or merge option, so the stored state is merged    *)
(* over the initial one as it is.  A JSON object is a sequence of          *)
(* <<key, value>> pairs; an absent key (undefined) is not written; null is *)
(* <<>> and an identifier id is <<id>>.                                    *)

(* JSON.stringify writes the keys of a message in their order, each with   *)
(* its value (a string, a number or a boolean; none is undefined).         *)
StringifyMessage(msg) ==
  [i \in 1..Len(msg) |-> <<msg[i][1], msg[i][2]>>]

(* JSON.parse inserts the keys in the order of the text.                   *)
ParseMessage(pairs) ==
  [i \in 1..Len(pairs) |-> <<pairs[i][1], pairs[i][2]>>]

StringifyChat(chat) ==
  <<<<"id", chat.id>>, <<"title", chat.title>>, <<"model", chat.model>>,
    <<"messages",
      [j \in 1..Len(chat.messages) |-> StringifyMessage(chat.messages[j])]>>,
    <<"createdAt", chat.createdAt>>>>

ParseChat(pairs) ==
  [id |-> pairs[1][2], title |-> pairs[2][2], model |-> pairs[3][2],
   messages |-> [j \in 1..Len(pairs[4][2]) |-> ParseMessage(pairs[4][2][j])],
   createdAt |-> pairs[5][2]]

(* The value written by setItem after a set(): the data of the state, in  *)
(* the order of its keys (the functions are not written by JSON).          *)
PersistState(chs, current, available, loading, error, speed) ==
  <<<<"state",
      <<<<"chats", [i \in 1..Len(chs) |-> StringifyChat(chs[i])]>>,
        <<"currentChatId", IF current = NoChat THEN <<>> ELSE <<current>>>>,
        <<"availableModels", available>>,
        <<"loadingModels", loading>>,
        <<"apiError", error>>,
        <<"tokenSpeed", speed>>>>>>,
    <<"version", 0>>>>

(* The value written after a set() that leaves the catalog as it is.       *)
Persist(chs, current, speed) ==
  PersistState(chs, current, availableModels, loadingModels, apiError, speed)

(* The state after persist's hydration at page load.                       *)
Hydrate(stored) ==
  IF stored = NoStorage
  THEN [chats |-> <<>>, currentChatId |-> NoChat, availableModels |-> <<>>,
        loadingModels |-> FALSE, apiError |-> <<>>, tokenSpeed |-> 0]
  ELSE LET state == stored[1][2]
       IN  [chats |-> [i \in 1..Len(state[1][2]) |-> ParseChat(state[1][2][i])],
            currentChatId |->
              IF state[2][2] = <<>> THEN NoChat ELSE state[2][2][1],
            availableModels |-> state[3][2],
            loadingModels |-> state[4][2],
            apiError |-> state[5][2],
            tokenSpeed |-> state[6][2]]

----------------------------------------------------------------------------
(* The locals of one sendMessage invocation.  pc is the suspension point:  *)
(* "idle" (not called), "fetch" (await fetch), "read" (await               *)
(* reader.read()), "done" (returned), "killed" (page unloaded).            *)
(* tokenCount is in quarter tokens.  pending/lastArgs/lastCallTime are the *)
(* state of the debounced updateSpeed.  The other fields record what the   *)
(* invocation did: body is the whole response text, lines the complete     *)
(* non-blank lines handed to JSON.parse, deltas the contents written to    *)
(* the store, finalized the runs of the last set(), clears the set() calls *)
(* that write isStreaming: false, partial whether a read left an           *)
(* unterminated line in the buffer, orphaned the kinds of step taken while *)
(* the chat was not in the store, wrote whether the timer wrote a nonzero  *)
(* speed, reset whether the timer fired after the return, stale whether it *)
(* then wrote a nonzero speed, request the body of the request.            *)

(* No request was made.                                                    *)
NoRequest == [model |-> "", messages |-> <<>>, stream |-> FALSE]

IdleOp ==
  [pc |-> "idle", chatId |-> NoChat, userTs |-> 0, aiTs |-> 0,
   body |-> <<>>, rest |-> <<>>, buffer |-> <<>>, aiText |-> "",
   tokenCount |-> 0, startTime |-> 0, lastUpdateTime |-> 0,
   pending |-> FALSE, lastArgs |-> 0, lastCallTime |-> 0,
   error |-> "", lines |-> <<>>, deltas |-> <<>>,
   finalized |-> 0, clears |-> 0, partial |-> FALSE, orphaned |-> {},
   wrote |-> FALSE, reset |-> FALSE, stale |-> FALSE, viaUI |-> FALSE,
   messageText |-> "", request |-> NoRequest,
   emitTimes |-> <<>>, writeTimes |-> <<>>]

(* A sendMessage on an existing chat draws two uuids.                      *)
OpIds == 1..(MaxUuid \div 2)

(* The fetchModels invocations.                                            *)
FetchIds == 1..MaxFetches

Started == {o \in OpIds : ops[o].pc # "idle"}

InFlight == {o \in OpIds : ops[o].pc \in {"fetch", "read"}}

(* updateSpeed(speed): lodash debounce, trailing edge, wait 200 ms.  The   *)
(* call records its arguments and the time; the timer invokes the wrapped  *)
(* function with the last arguments once 200 ms passed since the last call.*)
UpdateSpeed(op, speed) ==
  [op EXCEPT !.pending = TRUE, !.lastArgs = speed, !.lastCallTime = clock]

(* A parse error that leaves the inner try and reaches the outer catch.    *)
ParseRethrown(s, line) == [s EXCEPT !.op.error = "Unexpected token"]

(* The catch block of the inner try: log and go on with the next line.     *)
ParseFailed(s, line) == s

(* The inner try block with aiText = content in place of aiText += content.*)
ProcessLineReplace(s, line) ==
  LET parsed == JSONParse(line)
  IN  IF ~parsed.ok
      THEN ParseFailed(s, line)
      ELSE IF parsed.content # ""
           THEN [op |-> [s.op EXCEPT !.aiText = parsed.content,
                                     !.tokenCount = @ + parsed.length,
                                     !.deltas = Append(@, parsed.content)],
                 chats |-> SetText(s.chats, s.op.chatId, s.op.aiTs,
                                   parsed.content)]
           ELSE s

(* The inner try block, for one complete non-blank line.                   *)
ProcessLine(s, line) ==
  LET parsed == JSONParse(line)
  IN  IF ~parsed.ok
      THEN ParseFailed(s, line)
      ELSE IF parsed.content # ""
           THEN LET text == s.op.aiText \o parsed.content
                IN  [op |-> [s.op EXCEPT !.aiText = text,
                                         !.tokenCount = @ + parsed.length,
                                         !.deltas = Append(@, parsed.content)],
                     chats |-> SetText(s.chats, s.op.chatId, s.op.aiTs, text)]
           ELSE s

(* while ((boundary = buffer.indexOf('\n')) >= 0) { ... }                  *)
(* An exception that escapes the inner try leaves the loop; the catch     *)
(* block of the code lets none escape.                                     *)
RECURSIVE Drain(_)
Drain(s) ==
  LET boundary == IndexOf(s.op.buffer, NL)
  IN  IF boundary = 0 \/ s.op.error # ""
      THEN s
      ELSE LET line == SubSeq(s.op.buffer, 1, boundary - 1)
               s1 == [s EXCEPT !.op.buffer =
                        SubSeq(@, boundary + 1, Len(@))]
           IN  IF Trim(line) = <<>>
               THEN Drain(s1)
               ELSE Drain(ProcessLine(
                            [s1 EXCEPT !.op.lines = Append(@, line)], line))

(* buffer = decoder.decode(value): what is left of the last chunk is lost. *)
FeedReplace(buffer, chunk) == chunk

(* buffer += decoder.decode(value, { stream: true })                       *)
Feed(buffer, chunk) == buffer \o chunk

(* A speed emission that never advances lastUpdateTime.                    *)
EmitSpeedSinceStart(op) ==
  IF clock - op.lastUpdateTime > SpeedInterval
  THEN UpdateSpeed([op EXCEPT !.emitTimes = Append(@, clock)],
                   TokensPerSecond(op.tokenCount, clock - op.startTime))
  ELSE op

(* if (Date.now() - lastUpdateTime > 500) { ... updateSpeed(...) }         *)
(* emitTimes records when the invocation requested an emission.            *)
EmitSpeed(op) ==
  IF clock - op.lastUpdateTime > SpeedInterval
  THEN UpdateSpeed([op EXCEPT !.lastUpdateTime = clock,
                              !.emitTimes = Append(@, clock)],
                   TokensPerSecond(op.tokenCount, clock - op.startTime))
  ELSE op

(* if (buffer.trim()) { try { JSON.parse(buffer) ... aiText += ... } }     *)
(* aiText is a local: the store is not updated here.                       *)
Remaining(s) ==
  IF Trim(s.op.buffer) = <<>>
  THEN s
  ELSE LET parsed == JSONParse(s.op.buffer)
       IN  IF parsed.ok /\ parsed.content # ""
           THEN [s EXCEPT !.op.aiText = @ \o parsed.content]
           ELSE s

(* catch (error) { set(... text: `Error: ${error.message}`,                *)
(*                     isStreaming: false ...) }                           *)
Catch(s, message) ==
  [op |-> [s.op EXCEPT !.error = message, !.clears = @ + 1],
   chats |-> MarkError(s.chats, s.op.chatId, s.op.aiTs, message)]

(* finally { updateSpeed(0) }                                              *)
Finally(s) == [s EXCEPT !.op = UpdateSpeed(@, 0)]

(* A catch block that returns: the last set() runs on success only.        *)
FinalizeUnlessFailed(s) ==
  IF s.op.error # ""
  THEN [s EXCEPT !.op.pc = "done", !.op.rest = <<>>, !.op.buffer = <<>>,
                 !.op.tokenCount = 0, !.op.startTime = 0,
                 !.op.lastUpdateTime = 0, !.op.emitTimes = <<>>,
                 !.op.writeTimes = <<>>]
  ELSE [op |-> [s.op EXCEPT !.pc = "done", !.finalized = @ + 1,
                            !.clears = @ + 1, !.rest = <<>>, !.buffer = <<>>,
                            !.tokenCount = 0, !.startTime = 0,
                            !.lastUpdateTime = 0, !.emitTimes = <<>>,
                            !.writeTimes = <<>>],
        chats |-> ClearStreaming(s.chats, s.op.chatId, s.op.aiTs)]

(* The set() after the try statement, and the return, which drops the      *)
(* reader, the buffer, the counters of the estimator and the times kept    *)
(* of its emissions.                                                       *)
Finalize(s) ==
  [op |-> [s.op EXCEPT !.pc = "done", !.finalized = @ + 1, !.clears = @ + 1,
                       !.rest = <<>>, !.buffer = <<>>, !.tokenCount = 0,
                       !.startTime = 0, !.lastUpdateTime = 0, !.emitTimes = <<>>,
                       !.writeTimes = <<>>],
   chats |-> ClearStreaming(s.chats, s.op.chatId, s.op.aiTs)]

----------------------------------------------------------------------------
(* Actions.                                                                *)

(* The store after the first page load, on an empty localStorage.  The     *)
(* first load is a hydration too: a persist whose hydration ends with      *)
(* setItem() has written the initial state, one whose hydration writes     *)
(* only what it migrated has written nothing.  The repository does not     *)
(* say which zustand it is built with, and its options fit both.           *)
Init ==
  /\ chats = <<>>
  /\ currentChatId = NoChat
  /\ tokenSpeed = 0
  /\ storage \in {NoStorage, PersistState(<<>>, NoChat, <<>>, FALSE, <<>>, 0)}
  /\ ops = [o \in OpIds |-> IdleOp]
  /\ uuid = 0
  /\ clock = 0
  /\ outcome = ""
  /\ isSending = FALSE
  /\ returned = NoChat
  /\ availableModels = <<>>
  /\ loadingModels = FALSE
  /\ apiError = <<>>
  /\ fetches = [f \in FetchIds |-> "idle"]

(* A createChat that puts the new chat at the end of the list.             *)
CreateChatLast(title, model) ==
  IF model = ""
  THEN /\ outcome' = "No model selected"
       /\ returned' = NoChat
       /\ UNCHANGED <<store, storage, ops, uuid, clock, isSending, catalog,
                      fetches>>
  ELSE /\ uuid + 1 <= MaxUuid
       /\ LET newChat == [id |-> uuid + 1,
                          title |-> IF title = "" THEN "New Chat" ELSE title,
                          model |-> model,
                          messages |-> <<>>,
                          createdAt |-> clock]
          IN  /\ chats' = Append(chats, newChat)
              /\ currentChatId' = newChat.id
              /\ returned' = newChat.id
       /\ uuid' = uuid + 1
       /\ storage' = Persist(chats', currentChatId', tokenSpeed)
       /\ outcome' = ""
       /\ UNCHANGED <<tokenSpeed, ops, clock, isSending, catalog, fetches>>

(* A createChat without the check of the model.                            *)
CreateChatUnchecked(title, model) ==
  /\ uuid + 1 <= MaxUuid
  /\ LET newChat == [id |-> uuid + 1,
                     title |-> IF title = "" THEN "New Chat" ELSE title,
                     model |-> model,
                     messages |-> <<>>,
                     createdAt |-> clock]
     IN  /\ chats' = <<newChat>> \o chats
         /\ currentChatId' = newChat.id
         /\ returned' = newChat.id
  /\ uuid' = uuid + 1
  /\ storage' = Persist(chats', currentChatId', tokenSpeed)
  /\ outcome' = ""
  /\ UNCHANGED <<tokenSpeed, ops, clock, isSending, catalog, fetches>>

(* createChat(title, model); a model of "" stands for every falsy value    *)
(* (empty or absent), a title of "" likewise.                              *)
CreateChat(title, model) ==
  IF model = ""
  THEN /\ outcome' = "No model selected"
       /\ returned' = NoChat
       /\ UNCHANGED <<catalog, fetches>>
       /\ UNCHANGED <<store, storage, ops, uuid, clock, isSending>>
  ELSE /\ uuid + 1 <= MaxUuid
       /\ LET newChat == [id |-> uuid + 1,
                          title |-> IF title = "" THEN "New Chat" ELSE title,
                          model |-> model,
                          messages |-> <<>>,
                          createdAt |-> clock]
          IN  /\ chats' = <<newChat>> \o chats
              /\ currentChatId' = newChat.id
              /\ returned' = newChat.id
       /\ uuid' = uuid + 1
       /\ storage' = Persist(chats', currentChatId', tokenSpeed)
       /\ outcome' = ""
       /\ UNCHANGED <<catalog, fetches>>
       /\ UNCHANGED <<tokenSpeed, ops, clock, isSending>>

(* A deleteChat that clears currentChatId whatever it was.                 *)
DeleteChatClear(chatId) ==
  /\ chats' = SelectSeq(chats, LAMBDA chat : chat.id # chatId)
  /\ currentChatId' = NoChat
  /\ storage' = Persist(chats', currentChatId', tokenSpeed)
  /\ outcome' = ""
  /\ returned' = NoChat
  /\ UNCHANGED <<tokenSpeed, ops, uuid, clock, isSending, catalog, fetches>>

(* deleteChat(chatId)                                                      *)
DeleteChat(chatId) ==
  /\ chats' = SelectSeq(chats, LAMBDA chat : chat.id # chatId)
  /\ currentChatId' = IF currentChatId = chatId THEN NoChat ELSE currentChatId
  /\ storage' = Persist(chats', currentChatId', tokenSpeed)
  /\ outcome' = ""
  /\ returned' = NoChat
  /\ UNCHANGED <<catalog, fetches>>
  /\ UNCHANGED <<tokenSpeed, ops, uuid, clock, isSending>>

(* An addMessage that makes the chat named the current one.                *)
AddMessageSelect(chatId, message) ==
  /\ chats' = AppendMessage(chats, chatId, message)
  /\ currentChatId' = chatId
  /\ storage' = Persist(chats', currentChatId', tokenSpeed)
  /\ outcome' = ""
  /\ returned' = NoChat
  /\ UNCHANGED <<tokenSpeed, ops, uuid, clock, isSending, catalog, fetches>>

(* addMessage(chatId, message): the message is appended as the caller      *)
(* built it; nothing is checked, not the key either.                       *)
AddMessage(chatId, message) ==
  /\ chats' = AppendMessage(chats, chatId, message)
  /\ storage' = Persist(chats', currentChatId, tokenSpeed)
  /\ outcome' = ""
  /\ returned' = NoChat
  /\ UNCHANGED <<currentChatId, tokenSpeed, ops, uuid, clock, isSending,
                 catalog, fetches>>

(* A setCurrentChat that ignores an id that names no chat.                 *)
SetCurrentChatChecked(chatId) ==
  /\ currentChatId' = IF chatId \in ChatIds(chats) THEN chatId ELSE currentChatId
  /\ storage' = Persist(chats, currentChatId', tokenSpeed)
  /\ outcome' = ""
  /\ returned' = NoChat
  /\ UNCHANGED <<catalog, fetches>>
  /\ UNCHANGED <<chats, tokenSpeed, ops, uuid, clock, isSending>>

(* setCurrentChat(chatId)                                                  *)
SetCurrentChat(chatId) ==
  /\ currentChatId' = chatId
  /\ storage' = Persist(chats, chatId, tokenSpeed)
  /\ outcome' = ""
  /\ returned' = NoChat
  /\ UNCHANGED <<catalog, fetches>>
  /\ UNCHANGED <<chats, tokenSpeed, ops, uuid, clock, isSending>>

(* A request body that passes the sender on as the role.                   *)
RequestBodySender(chat, userMessage, messageText) ==
  LET prior == SelectSeq(chat.messages,
                         LAMBDA m : Get(m, "timestamp") # Get(userMessage, "timestamp"))
  IN  [model |-> chat.model,
       messages |->
         [j \in 1..Len(prior) |->
            [role |-> Get(prior[j], "sender"), content |-> Get(prior[j], "text")]]
         \o <<[role |-> "user", content |-> messageText]>>,
       stream |-> TRUE]

(* The body of the POST to /api/chat.  chat is the chat found by the       *)
(* lookup, before the two appends: set() replaces the chat object, so      *)
(* chat.messages holds neither the user message nor the placeholder, and   *)
(* the filter removes nothing.                                             *)
RequestBody(chat, userMessage, messageText) ==
  LET prior == SelectSeq(chat.messages,
                         LAMBDA m : Get(m, "timestamp") # Get(userMessage, "timestamp"))
  IN  [model |-> chat.model,
       messages |->
         [j \in 1..Len(prior) |->
            [role |-> IF Get(prior[j], "sender") = "user" THEN "user" ELSE "assistant",
             content |-> Get(prior[j], "text")]]
         \o <<[role |-> "user", content |-> messageText]>>,
       stream |-> TRUE]

(* A lookup that falls back to the current chat: an unknown chatId passes  *)
(* the check, and the appends, keyed by chatId, find nothing.              *)
SendMessageCallFallback(o, chatId, messageText, ui) ==
  IF chatId \notin ChatIds(chats) /\ currentChatId \notin ChatIds(chats)
  THEN /\ outcome' = "Chat not found"
       /\ returned' = NoChat
       /\ UNCHANGED <<catalog, fetches>>
       /\ UNCHANGED <<store, storage, ops, uuid, clock, isSending>>
  ELSE LET chat == FindChat(chats, IF chatId \in ChatIds(chats)
                                   THEN chatId ELSE currentChatId)
           userMessage == <<<<"text", messageText>>, <<"sender", "user">>,
                            <<"timestamp", uuid + 1>>>>
           aiMessage == <<<<"text", "">>, <<"sender", "ai">>,
                          <<"timestamp", uuid + 2>>, <<"isStreaming", TRUE>>>>
       IN  /\ chats' = AppendMessage(AppendMessage(chats, chatId, userMessage),
                                     chatId, aiMessage)
           /\ ops' = [ops EXCEPT ![o] =
                        [IdleOp EXCEPT !.pc = "fetch", !.chatId = chatId,
                                       !.messageText = messageText,
                                       !.userTs = Get(userMessage, "timestamp"),
                                       !.aiTs = Get(aiMessage, "timestamp"),
                                       !.request = RequestBody(chat, userMessage,
                                                               messageText),
                                       !.viaUI = ui]]
           /\ uuid' = uuid + 2
           /\ storage' = Persist(chats', currentChatId, tokenSpeed)
           /\ outcome' = ""
           /\ returned' = NoChat
           /\ UNCHANGED <<catalog, fetches>>
           /\ isSending' = (isSending \/ ui)
           /\ UNCHANGED <<currentChatId, tokenSpeed, clock>>

(* The synchronous part of sendMessage(chatId, messageText), up to the     *)
(* await of fetch: the lookup, the two appends, the request.  o is the     *)
(* invocation, ui tells whether Chat.handleSendMessage made the call.      *)
SendMessageCall(o, chatId, messageText, ui) ==
  IF chatId \notin ChatIds(chats)
  THEN /\ outcome' = "Chat not found"
       /\ returned' = NoChat
       /\ UNCHANGED <<catalog, fetches>>
       /\ UNCHANGED <<store, storage, ops, uuid, clock, isSending>>
  ELSE LET chat == FindChat(chats, chatId)
           userMessage == <<<<"text", messageText>>, <<"sender", "user">>,
                            <<"timestamp", uuid + 1>>>>
           aiMessage == <<<<"text", "">>, <<"sender", "ai">>,
                          <<"timestamp", uuid + 2>>, <<"isStreaming", TRUE>>>>
       IN  /\ chats' = AppendMessage(AppendMessage(chats, chatId, userMessage),
                                     chatId, aiMessage)
           /\ ops' = [ops EXCEPT ![o] =
                        [IdleOp EXCEPT !.pc = "fetch", !.chatId = chatId,
                                       !.messageText = messageText,
                                       !.userTs = Get(userMessage, "timestamp"),
                                       !.aiTs = Get(aiMessage, "timestamp"),
                                       !.request = RequestBody(chat, userMessage,
                                                               messageText),
                                       !.viaUI = ui]]
           /\ uuid' = uuid + 2
           /\ storage' = Persist(chats', currentChatId, tokenSpeed)
           /\ outcome' = ""
           /\ returned' = NoChat
           /\ UNCHANGED <<catalog, fetches>>
           /\ isSending' = (isSending \/ ui)
           /\ UNCHANGED <<currentChatId, tokenSpeed, clock>>

NextOp == CHOOSE o \in OpIds : ops[o].pc = "idle" /\ \A q \in 1..(o - 1) : ops[q].pc # "idle"

SendMessage(chatId, messageText) ==
  /\ uuid + 2 <= MaxUuid
  /\ SendMessageCall(NextOp, chatId, messageText, FALSE)

(* The state after a step of invocation o that ended in s.  When the       *)
(* invocation returns, the await in handleSendMessage resumes and its      *)
(* finally clears isSending of the instance that made the call.            *)
Commit(o, s) ==
  /\ ops' = [ops EXCEPT ![o] =
               [s.op EXCEPT !.orphaned =
                  IF s.op.chatId \in ChatIds(chats)
                  THEN @
                  ELSE @ \cup {k \in {"delta", "catch", "finalize"} :
                                \/ k = "delta" /\ s.op.deltas # ops[o].deltas
                                \/ k = "catch" /\ s.op.error # ops[o].error
                                \/ k = "finalize"
                                   /\ s.op.finalized # ops[o].finalized}]]
  /\ chats' = s.chats
  /\ storage' = Persist(s.chats, currentChatId, tokenSpeed)
  /\ isSending' = IF s.op.pc = "done" /\ s.op.viaUI THEN FALSE ELSE isSending
  /\ outcome' = ""
  /\ returned' = NoChat
  /\ UNCHANGED <<catalog, fetches>>
  /\ UNCHANGED <<currentChatId, tokenSpeed, uuid, clock>>

(* fetch resolved with a 2xx response whose body will deliver `body`.      *)
FetchOk(o, body) ==
  /\ ops[o].pc = "fetch"
  /\ Commit(o, [op |-> [ops[o] EXCEPT !.pc = "read", !.body = body,
                                      !.rest = body, !.startTime = clock,
                                      !.lastUpdateTime = clock],
                chats |-> chats])

(* fetch rejected, or resolved with a non-2xx response.                    *)
FetchFail(o, message) ==
  /\ ops[o].pc = "fetch"
  /\ Commit(o, Finalize(Finally(Catch([op |-> ops[o], chats |-> chats],
                                     message))))

(* reader.read() resolved with the next n tokens of the body.              *)
ReadChunk(o, n) ==
  /\ ops[o].pc = "read"
  /\ n \in 1..Len(ops[o].rest)
  /\ LET op == ops[o]
         fed == [op EXCEPT !.buffer = Feed(@, SubSeq(op.rest, 1, n)),
                           !.rest = SubSeq(@, n + 1, Len(@))]
         s == Drain([op |-> fed, chats |-> chats])
     IN  IF s.op.error # ""
         THEN Commit(o, Finalize(Finally(Catch(s, s.op.error))))
         ELSE Commit(o, [s EXCEPT !.op = EmitSpeed(
                                [@ EXCEPT !.partial = @ \/ s.op.buffer # <<>>])])

(* reader.read() resolved with done: true.                                 *)
ReadEnd(o) ==
  /\ ops[o].pc = "read"
  /\ ops[o].rest = <<>>
  /\ Commit(o, Finalize(Finally(Remaining([op |-> ops[o], chats |-> chats]))))

(* reader.read() rejected.                                                 *)
ReadError(o, message) ==
  /\ ops[o].pc = "read"
  /\ Commit(o, Finalize(Finally(Catch([op |-> ops[o], chats |-> chats],
                                     message))))

(* fetchModels(), up to the await of fetch:                                *)
(* set({ loadingModels: true, apiError: null }).                           *)
FetchModels ==
  /\ \E f \in FetchIds : fetches[f] = "idle"
  /\ LET f == CHOOSE g \in FetchIds :
                fetches[g] = "idle" /\ \A h \in 1..(g - 1) : fetches[h] # "idle"
     IN  fetches' = [fetches EXCEPT ![f] = "fetch"]
  /\ loadingModels' = TRUE
  /\ apiError' = <<>>
  /\ storage' = PersistState(chats, currentChatId, availableModels,
                             loadingModels', apiError', tokenSpeed)
  /\ outcome' = ""
  /\ returned' = NoChat
  /\ UNCHANGED <<store, availableModels, ops, uuid, clock, isSending>>

(* fetch resolved with a 2xx response: await response.json().              *)
ModelsResponseOk(f) ==
  /\ fetches[f] = "fetch"
  /\ fetches' = [fetches EXCEPT ![f] = "json"]
  /\ outcome' = ""
  /\ returned' = NoChat
  /\ UNCHANGED <<store, catalog, storage, ops, uuid, clock, isSending>>

(* A catch block without the finally block after it.                       *)
ModelsCatchOnly(f, message) ==
  /\ apiError' = <<message>>
  /\ fetches' = [fetches EXCEPT ![f] = "failed"]
  /\ storage' = PersistState(chats, currentChatId, availableModels,
                             loadingModels, apiError', tokenSpeed)
  /\ outcome' = ""
  /\ returned' = NoChat
  /\ UNCHANGED <<store, availableModels, loadingModels, ops, uuid, clock,
                 isSending>>

(* catch (error) { set({ apiError: error.message }) }                      *)
(* finally { set({ loadingModels: false }) }, and the return.              *)
ModelsCatch(f, message) ==
  /\ apiError' = <<message>>
  /\ loadingModels' = FALSE
  /\ fetches' = [fetches EXCEPT ![f] = "failed"]
  /\ storage' = PersistState(chats, currentChatId, availableModels,
                             loadingModels', apiError', tokenSpeed)
  /\ outcome' = ""
  /\ returned' = NoChat
  /\ UNCHANGED <<store, availableModels, ops, uuid, clock, isSending>>

(* fetch rejected, or resolved with a non-2xx response (the code throws    *)
(* "Failed to fetch models").                                              *)
ModelsResponseFail(f, message) ==
  /\ fetches[f] = "fetch"
  /\ ModelsCatch(f, message)

(* response.json() resolved with data: set({ availableModels:              *)
(* data.models }), then finally { set({ loadingModels: false }) }.         *)
ModelsJsonOk(f, data) ==
  /\ fetches[f] = "json"
  /\ availableModels' = data.models
  /\ loadingModels' = FALSE
  /\ fetches' = [fetches EXCEPT ![f] = "done"]
  /\ storage' = PersistState(chats, currentChatId, availableModels',
                             loadingModels', apiError, tokenSpeed)
  /\ outcome' = ""
  /\ returned' = NoChat
  /\ UNCHANGED <<store, apiError, ops, uuid, clock, isSending>>

(* response.json() rejected: the body is not JSON.                         *)
ModelsJsonFail(f, message) ==
  /\ fetches[f] = "json"
  /\ ModelsCatch(f, message)

(* The debounce timer of invocation o expired at least 200 ms after the    *)
(* last updateSpeed call: set({ tokenSpeed: speed }), and the timer and    *)
(* the arguments are cleared.                                              *)
DebounceFire(o) ==
  /\ ops[o].pending
  /\ clock - ops[o].lastCallTime >= DebounceWait
  /\ tokenSpeed' = ops[o].lastArgs
  /\ ops' = [ops EXCEPT ![o].pending = FALSE,
                        ![o].lastArgs = 0,
                        ![o].lastCallTime = 0,
                        ![o].wrote = @ \/ ops[o].lastArgs # 0,
                        ![o].writeTimes = IF ops[o].lastArgs # 0
                                          THEN Append(@, clock) ELSE @,
                        ![o].reset = @ \/ ops[o].pc = "done",
                        ![o].stale = @ \/ (ops[o].pc = "done" /\ ops[o].lastArgs # 0)]
  /\ storage' = Persist(chats, currentChatId, tokenSpeed')
  /\ outcome' = ""
  /\ returned' = NoChat
  /\ UNCHANGED <<catalog, fetches>>
  /\ UNCHANGED <<chats, currentChatId, uuid, clock, isSending>>

(* Time passes, up to a number of ticks.                                   *)
Elapse(ticks) ==
  /\ clock < ticks * TickMs
  /\ clock' = clock + TickMs
  /\ UNCHANGED <<store, storage, ops, uuid, outcome, isSending, returned,
                 catalog, fetches>>

Tick == Elapse(MaxTicks)

(* The page is reloaded: every invocation in flight and every timer is     *)
(* gone, and persist hydrates the new store from localStorage.  With a     *)
(* persist whose hydration ends with setItem() the state it arrived at is  *)
(* written back, over the record it was read from (the first load wrote    *)
(* one); with a persist that writes nothing on a load the storage stays    *)
(* as it is, empty when no set() was made yet.                             *)
Rehydrate ==
  /\ LET state == Hydrate(storage)
     IN  /\ chats' = state.chats
         /\ currentChatId' = state.currentChatId
         /\ tokenSpeed' = state.tokenSpeed
         /\ storage' = IF storage = NoStorage
                        THEN NoStorage
                        ELSE PersistState(state.chats, state.currentChatId,
                                          state.availableModels,
                                          state.loadingModels, state.apiError,
                                          state.tokenSpeed)
  /\ ops' = [o \in OpIds |->
               [ops[o] EXCEPT !.pc = IF @ \in {"fetch", "read"} THEN "killed" ELSE @,
                              !.pending = FALSE,
                              !.viaUI = FALSE]]
  /\ isSending' = FALSE
  /\ outcome' = "hydrated"
  /\ returned' = NoChat
  /\ availableModels' = Hydrate(storage).availableModels
  /\ loadingModels' = Hydrate(storage).loadingModels
  /\ apiError' = Hydrate(storage).apiError
  /\ fetches' = [f \in FetchIds |->
                   IF fetches[f] \in {"fetch", "json"} THEN "killed" ELSE fetches[f]]
  /\ UNCHANGED <<uuid, clock>>

(* Chat.handleSendMessage: the submit handler of the mounted Chat          *)
(* component, for the chat of the route and a non-blank input.             *)
HandleSendMessage(chatId, input) ==
  /\ input # ""
  /\ chatId \in ChatIds(chats)
  /\ ~isSending
  /\ uuid + 2 <= MaxUuid
  /\ SendMessageCall(NextOp, chatId, input, TRUE)

(* The user leaves the chat route and comes back: the Chat component is    *)
(* unmounted and a new instance is mounted, with useState(false).  The     *)
(* setIsSending of the old instance no longer affects what is shown.       *)
Remount ==
  /\ isSending
  /\ isSending' = FALSE
  /\ ops' = [o \in OpIds |-> [ops[o] EXCEPT !.viaUI = FALSE]]
  /\ outcome' = ""
  /\ returned' = NoChat
  /\ UNCHANGED <<catalog, fetches>>
  /\ UNCHANGED <<store, storage, uuid, clock>>

----------------------------------------------------------------------------
(* Inputs.                                                                 *)

TitleInputs == {"", "T"}
ModelInputs == {"", "m1"}
TextInputs == {"hi"}

(* Identifiers a caller can pass: null, and every identifier issued so far *)
(* (chats that exist, chats that were deleted, message keys).              *)
IdInputs == 0..uuid

(* The keys a caller of addMessage can give a message: a key of its own    *)
(* making, which uuidv4() never returned, and every identifier issued so   *)
(* far (the key of a message of this or another chat, of a placeholder     *)
(* that is streaming, the identifier of a chat).                           *)
OwnKey == -1

KeyInputs == {OwnKey} \cup 1..uuid

(* Messages a caller of addMessage can have built: one of a sender that    *)
(* sendMessage does not use, written as sendMessage writes its messages    *)
(* ({ text, sender, timestamp }); a user's, with its keys in another order *)
(* ({ timestamp, sender, text }); and one that is marked as streaming.     *)
MessageInputs ==
  {<<<<"text", "x">>, <<"sender", "system">>, <<"timestamp", k>>>> :
     k \in KeyInputs}
  \cup {<<<<"timestamp", k>>, <<"sender", "user">>, <<"text", "x">>>> :
          k \in KeyInputs}
  \cup {<<<<"text", "x">>, <<"sender", "ai">>, <<"timestamp", k>>,
           <<"isStreaming", TRUE>>>> : k \in KeyInputs}

(* The number of messages in the store.                                    *)
MessageCount(chs) ==
  Cardinality(UNION {{<<i, j>> : j \in 1..Len(chs[i].messages)} :
                       i \in 1..Len(chs)})

(* The catalogs the server can return, and the ways the request can fail.  *)
Catalogs == {[models |-> <<>>], [models |-> <<"m1">>], [models |-> <<"m1", "m2">>]}

ModelsErrors == {"Failed to fetch", "Failed to fetch models"}

JsonErrors == {"Unexpected token"}

FetchErrors == {"Failed to fetch", "API request failed"}
ReadErrors == {"network error"}

(* Response bodies of the interleaving specification: one record, and an   *)
(* empty body (the connection was closed before any data).                 *)
SampleBodies == {<<Open, "a", Close, NL>>, <<>>}

(* Lines a response body is made of: records with content, a status        *)
(* record, blank lines, a record with empty content, a malformed line.     *)
LineTemplates ==
  { <<Open, "a", Close>>, <<Open, "b", "a", Close>>, <<Status>>, <<>>, <<SP>>,
    <<Open, Close>>, <<Open, "a">> }

RECURSIVE TerminatedBodies(_)
TerminatedBodies(n) ==
  IF n = 0
  THEN {<<>>}
  ELSE LET shorter == TerminatedBodies(n - 1)
       IN  shorter \cup {b \o l \o <<NL>> : b \in shorter, l \in LineTemplates}

(* What can follow the last newline: nothing, a record, half a record,    *)
(* white space.                                                            *)
TailTemplates == { <<>>, <<Open, "b", Close>>, <<Open, "a">>, <<SP>> }

(* Bodies of at most MaxLines newline-terminated lines, followed or not by *)
(* an unterminated last line.                                              *)
Bodies ==
  {b \o l : b \in TerminatedBodies(MaxLines), l \in TailTemplates}

----------------------------------------------------------------------------
(* Specifications.                                                         *)

(* The store under any interleaving of calls of its actions.               *)
Next ==
  \/ \E m \in ModelInputs : CreateChat("T", m)
  \/ \E c \in IdInputs : DeleteChat(c)
  \/ \E c \in IdInputs : SetCurrentChat(c)
  \/ \E c \in IdInputs, x \in TextInputs : SendMessage(c, x)
  \/ \E o \in OpIds, b \in SampleBodies : FetchOk(o, b)
  \/ \E o \in OpIds, e \in FetchErrors : FetchFail(o, e)
  \/ \E o \in OpIds : \E n \in 1..Len(ops[o].rest) : ReadChunk(o, n)
  \/ \E o \in OpIds : ReadEnd(o)
  \/ \E o \in OpIds, e \in ReadErrors : ReadError(o, e)

Spec == Init /\ [][Next]_vars

(* One sendMessage on one chat, for every response body of Bodies and      *)
(* every way of cutting it into chunks; the stream ends normally.          *)
NextStream ==
  \/ chats = <<>> /\ CreateChat("T", "m1")
  \/ Started = {} /\ \E c \in ChatIds(chats), x \in TextInputs : SendMessage(c, x)
  \/ ops[1].pc = "fetch" /\ \E b \in Bodies : FetchOk(1, b)
  \/ \E n \in 1..Len(ops[1].rest) : ReadChunk(1, n)
  \/ ReadEnd(1)

SpecStream == Init /\ [][NextStream]_vars

(* The store as the user interface drives it: messages are sent by the     *)
(* submit handler of the Chat component, chats are created with a model    *)
(* chosen, and the chats acted on are those listed.                        *)
NextUI ==
  \/ CreateChat("T", "m1")
  \/ \E c \in ChatIds(chats) : DeleteChat(c)
  \/ \E c \in ChatIds(chats) : SetCurrentChat(c)
  \/ \E c \in ChatIds(chats), x \in TextInputs : HandleSendMessage(c, x)
  \/ Remount
  \/ \E o \in OpIds, b \in SampleBodies : FetchOk(o, b)
  \/ \E o \in OpIds, e \in FetchErrors : FetchFail(o, e)
  \/ \E o \in OpIds : \E n \in 1..Len(ops[o].rest) : ReadChunk(o, n)
  \/ \E o \in OpIds : ReadEnd(o)
  \/ \E o \in OpIds, e \in ReadErrors : ReadError(o, e)

SpecUI == Init /\ [][NextUI]_vars

(* The store across page reloads.                                          *)
NextPersist ==
  \/ \E t \in TitleInputs : CreateChat(t, "m1")
  \/ \E c \in ChatIds(chats) : DeleteChat(c)
  \/ \E c \in ChatIds(chats) \cup {NoChat} : SetCurrentChat(c)
  \/ \E c \in ChatIds(chats), x \in TextInputs : SendMessage(c, x)
  \/ \E o \in OpIds, b \in SampleBodies : FetchOk(o, b)
  \/ \E o \in OpIds, e \in FetchErrors : FetchFail(o, e)
  \/ \E o \in OpIds : \E n \in 1..Len(ops[o].rest) : ReadChunk(o, n)
  \/ \E o \in OpIds : ReadEnd(o)
  \/ Rehydrate

SpecPersist == Init /\ [][NextPersist]_vars

(* The management of the list of chats: any call of createChat,           *)
(* deleteChat and setCurrentChat, with any argument, on chats that hold    *)
(* messages: addMessage gives them a few, with a key of the caller's own.  *)
NextChats ==
  \/ \E m \in ModelInputs : CreateChat("T", m)
  \/ \E c \in IdInputs : DeleteChat(c)
  \/ \E c \in IdInputs : SetCurrentChat(c)
  \/ /\ MessageCount(chats) < MaxAdded
     /\ \E c \in IdInputs, m \in MessageInputs :
          /\ Get(m, "timestamp") = OwnKey
          /\ Get(m, "sender") # "ai"
          /\ AddMessage(c, m)

SpecChats == Init /\ [][NextChats]_vars

(* addMessage with any argument: a message of MessageInputs, for a chat of *)
(* the store, for null, or for an identifier that names no chat.           *)
NextAdd ==
  \/ Len(chats) < MaxChats /\ CreateChat("T", "m1")
  \/ /\ MessageCount(chats) < MaxAdded
     /\ \E c \in IdInputs \cup {OwnKey}, m \in MessageInputs : AddMessage(c, m)

SpecAdd == Init /\ [][NextAdd]_vars

(* The number of messages of the store that addMessage appended: the       *)
(* others are the two of each sendMessage on a chat of the store.          *)
Added(chs) ==
  MessageCount(chs)
    - 2 * Cardinality({o \in Started : ops[o].chatId \in ChatIds(chs)})

(* The messages of the chats under every operation that touches them:      *)
(* sendMessage and its steps, addMessage, and the calls that the list of   *)
(* chats takes meanwhile.  addMessage is called once, with a user's        *)
(* message or one marked as streaming, under a key of the caller's own or  *)
(* the identifier issued last (the key of the placeholder of the latest    *)
(* sendMessage, or the newest chat); a read delivers all that is left of   *)
(* the body.                                                               *)
NextMessages ==
  \/ Len(chats) < MaxChats /\ CreateChat("T", "m1")
  \/ \E c \in ChatIds(chats) : DeleteChat(c)
  \/ \E c \in ChatIds(chats) : SetCurrentChat(c)
  \/ /\ Added(chats) = 0
     /\ \E c \in ChatIds(chats), m \in MessageInputs :
          /\ Get(m, "timestamp") \in {OwnKey, uuid}
          /\ Get(m, "sender") # "system"
          /\ AddMessage(c, m)
  \/ \E c \in ChatIds(chats), x \in TextInputs : SendMessage(c, x)
  \/ \E o \in OpIds, b \in SampleBodies : FetchOk(o, b)
  \/ \E o \in OpIds : FetchFail(o, "Failed to fetch")
  \/ \E o \in OpIds : ReadChunk(o, Len(ops[o].rest))
  \/ \E o \in OpIds : ReadEnd(o)
  \/ \E o \in OpIds, e \in ReadErrors : ReadError(o, e)

SpecMessages == Init /\ [][NextMessages]_vars

(* Streams on the chats of the store while the user switches the active    *)
(* chat, to any id, and deletes chats.                                     *)
NextSwitch ==
  \/ CreateChat("T", "m1")
  \/ \E c \in ChatIds(chats) : DeleteChat(c)
  \/ \E c \in IdInputs : SetCurrentChat(c)
  \/ \E c \in ChatIds(chats), x \in TextInputs : SendMessage(c, x)
  \/ \E o \in OpIds, b \in SampleBodies : FetchOk(o, b)
  \/ \E o \in OpIds : FetchFail(o, "Failed to fetch")
  \/ \E o \in OpIds : \E n \in 1..Len(ops[o].rest) : ReadChunk(o, n)
  \/ \E o \in OpIds : ReadEnd(o)
  \/ \E o \in OpIds, e \in ReadErrors : ReadError(o, e)

SpecSwitch == Init /\ [][NextSwitch]_vars

(* The calls of fetchModels, overlapping or not.                           *)
NextModels ==
  \/ FetchModels
  \/ \E f \in FetchIds : ModelsResponseOk(f)
  \/ \E f \in FetchIds, e \in ModelsErrors : ModelsResponseFail(f, e)
  \/ \E f \in FetchIds, d \in Catalogs : ModelsJsonOk(f, d)
  \/ \E f \in FetchIds, e \in JsonErrors : ModelsJsonFail(f, e)

SpecModels == Init /\ [][NextModels]_vars

(* One chat at a time, its sendMessage invocations, and time: the clock    *)
(* ticks, the debounce timers fire.  The chat can be deleted and the page  *)
(* closed and loaded again while a stream is in progress.  The network is  *)
(* silent from one debounce wait before the last tick on, so that every    *)
(* timer armed can fire.  A read delivers the record without its newline,  *)
(* or all that is left.                                                    *)
SpeedBodies == {<<Open, "b", "a", Close, NL>>}

NetworkUp == clock + DebounceWait <= MaxTicks * TickMs

NextSpeed ==
  \/ chats = <<>> /\ CreateChat("T", "m1")
  \/ \E c \in ChatIds(chats), x \in TextInputs : SendMessage(c, x)
  \/ \E c \in ChatIds(chats) : DeleteChat(c)
  \/ Rehydrate
  \/ NetworkUp /\ \E o \in OpIds, b \in SpeedBodies : FetchOk(o, b)
  \/ NetworkUp /\ \E o \in OpIds : FetchFail(o, "API request failed")
  \/ NetworkUp /\ \E o \in OpIds : \E n \in {4, Len(ops[o].rest)} : ReadChunk(o, n)
  \/ NetworkUp /\ \E o \in OpIds : ReadEnd(o)
  \/ NetworkUp /\ \E o \in OpIds, e \in ReadErrors : ReadError(o, e)
  \/ \E o \in OpIds : DebounceFire(o)
  \/ Tick

(* Time passes and a timer that is due fires.                              *)
SpecSpeed ==
  /\ Init
  /\ [][NextSpeed]_vars
  /\ WF_vars(Tick)
  /\ \A o \in OpIds : WF_vars(DebounceFire(o))

(* One stream of two records, long enough for two speed emissions: a read  *)
(* delivers four tokens or all that is left, at any time, and the debounce *)
(* timer fires when it is due or later.                                    *)
RateBodies == {<<Open, "b", "a", Close, NL, Open, "b", "a", Close, NL>>}

NextRate ==
  \/ chats = <<>> /\ CreateChat("T", "m1")
  \/ Started = {} /\ \E c \in ChatIds(chats), x \in TextInputs : SendMessage(c, x)
  \/ \E b \in RateBodies : FetchOk(1, b)
  \/ \E n \in {4, Len(ops[1].rest)} : ReadChunk(1, n)
  \/ ReadEnd(1)
  \/ DebounceFire(1)
  \/ Elapse(MaxRateTicks)

SpecRate == Init /\ [][NextRate]_vars

----------------------------------------------------------------------------
(* What the claims speak of.                                               *)

(* The complete (newline-terminated) lines of a text, in order.            *)
RECURSIVE CompleteLines(_)
CompleteLines(text) ==
  LET i == IndexOf(text, NL)
  IN  IF i = 0
      THEN <<>>
      ELSE <<SubSeq(text, 1, i - 1)>> \o CompleteLines(SubSeq(text, i + 1, Len(text)))

(* What follows the last newline of a text.                                *)
RECURSIVE LastLine(_)
LastLine(text) ==
  LET i == IndexOf(text, NL)
  IN  IF i = 0 THEN text ELSE LastLine(SubSeq(text, i + 1, Len(text)))

NonBlank(line) == \E i \in 1..Len(line) : line[i] # SP

WellFormed(line) == NonBlank(line) /\ JSONParse(line).ok

(* The non-empty message.content values of the well-formed lines.          *)
RECURSIVE ContentDeltas(_)
ContentDeltas(lines) ==
  IF lines = <<>>
  THEN <<>>
  ELSE (IF WellFormed(Head(lines)) /\ JSONParse(Head(lines)).content # ""
        THEN <<JSONParse(Head(lines)).content>>
        ELSE <<>>) \o ContentDeltas(Tail(lines))

NewlineTerminated(text) == text = <<>> \/ text[Len(text)] = NL

HasMessage(chatId, ts) ==
  /\ chatId \in ChatIds(chats)
  /\ \E j \in 1..Len(FindChat(chats, chatId).messages) :
       Get(FindChat(chats, chatId).messages[j], "timestamp") = ts

(* The first message of the chat with the key: when addMessage gave the    *)
(* key to another message, that one was appended later.                    *)
MessageOf(chatId, ts) ==
  LET messages == FindChat(chats, chatId).messages
  IN  messages[CHOOSE j \in 1..Len(messages) :
                 /\ Get(messages[j], "timestamp") = ts
                 /\ \A k \in 1..(j - 1) : Get(messages[k], "timestamp") # ts]

AiMessage(o) == MessageOf(ops[o].chatId, ops[o].aiTs)

Returned(o) == ops[o].pc = "done"

Succeeded(o) == Returned(o) /\ ops[o].error = ""

Failed(o) == Returned(o) /\ ops[o].error # ""

(* C1: when sendMessage has returned after a stream of newline-terminated  *)
(* lines that ended normally, the text of the assistant message is the     *)
(* concatenation, in order, of the message.content of the well-formed      *)
(* records of the stream, and the message is not streaming.                *)
C1_StreamedText ==
  \A o \in OpIds :
    (Succeeded(o) /\ NewlineTerminated(ops[o].body)
       /\ HasMessage(ops[o].chatId, ops[o].aiTs))
    => /\ Get(AiMessage(o), "text") = Join(ContentDeltas(CompleteLines(ops[o].body)))
       /\ Get(AiMessage(o), "isStreaming") = FALSE

C1_Witness ==
  \E o \in OpIds :
    /\ Succeeded(o)
    /\ ops[o].body = <<Open, "a", Close, NL, Open, "b", "a", Close, NL>>
    /\ HasMessage(ops[o].chatId, ops[o].aiTs)
    /\ Get(AiMessage(o), "text") = "aba"

(* The part of the response body that the reads have delivered so far.    *)
Consumed(o) ==
  IF Returned(o)
  THEN ops[o].body
  ELSE SubSeq(ops[o].body, 1, Len(ops[o].body) - Len(ops[o].rest))

(* C6: the deltas written to the assistant message are exactly the         *)
(* contents of the well-formed complete lines delivered so far, in stream  *)
(* order; a malformed line adds nothing, and the invocation does not take  *)
(* the error path.                                                         *)
C6_MalformedSkipped ==
  \A o \in OpIds :
    ops[o].pc \in {"read", "done"}
    => /\ ops[o].deltas = ContentDeltas(CompleteLines(Consumed(o)))
       /\ ops[o].error = ""
       /\ ops[o].clears = (IF Returned(o) THEN 1 ELSE 0)

C6_Witness ==
  \E o \in OpIds :
    /\ Returned(o)
    /\ ops[o].body = <<Open, "a", Close, NL, Open, "a", NL,
                       Open, "b", "a", Close, NL>>
    /\ ops[o].deltas = <<"a", "ba">>
    /\ HasMessage(ops[o].chatId, ops[o].aiTs)
    /\ Get(AiMessage(o), "text") = "aba"

(* C7: however the response text is cut into chunks, the line buffer hands *)
(* on the same lines: after every read, the lines handed to the parser are *)
(* the non-blank complete lines of the text delivered so far, the buffer   *)
(* holds what follows its last newline, and the deltas applied are those   *)
(* of these lines.                                                         *)
C7_ChunkIndependence ==
  \A o \in OpIds :
    /\ ops[o].pc \in {"read", "done"}
       => /\ ops[o].lines = SelectSeq(CompleteLines(Consumed(o)), NonBlank)
          /\ Join(ops[o].deltas) = Join(ContentDeltas(ops[o].lines))
    /\ ops[o].pc = "read" => ops[o].buffer = LastLine(Consumed(o))

C7_Witness ==
  \E o \in OpIds :
    /\ Returned(o)
    /\ ops[o].partial
    /\ Len(ops[o].lines) >= 2
    /\ Len(ops[o].deltas) >= 2

(* C2: when the fetch or a read of a sendMessage failed, the text of the   *)
(* assistant message is "Error: " followed by the error's message and the *)
(* message is not streaming, in every state from the failure on: no delta  *)
(* is applied to it afterwards.                                            *)
C2_ErrorMarked ==
  \A o \in OpIds :
    (Failed(o) /\ HasMessage(ops[o].chatId, ops[o].aiTs))
    => /\ Get(AiMessage(o), "text") = "Error: " \o ops[o].error
       /\ Get(AiMessage(o), "isStreaming") = FALSE

C2_Witness ==
  \E o \in OpIds :
    /\ Failed(o)
    /\ ops[o].error = "network error"
    /\ ops[o].deltas = <<"a">>
    /\ HasMessage(ops[o].chatId, ops[o].aiTs)
    /\ Get(AiMessage(o), "text") = "Error: network error"

(* C3, as claimed: over a whole sendMessage the isStreaming flag of the    *)
(* assistant message is written false exactly once.                        *)
C3_ClearedOnce ==
  \A o \in OpIds : Returned(o) => ops[o].clears = 1

(* C3, amended: the last set() of sendMessage runs exactly once per        *)
(* invocation, as its last step, on every path, and leaves the assistant   *)
(* message not streaming; it is the only write of isStreaming: false when  *)
(* the stream completed, and the second one when the invocation failed,    *)
(* the catch block having written the first.  Until then the flag is not   *)
(* written and the message is streaming.                                   *)
C3_FinalizeOnce ==
  \A o \in OpIds :
    /\ Returned(o)
       => /\ ops[o].finalized = 1
          /\ ops[o].clears = (IF ops[o].error = "" THEN 1 ELSE 2)
          /\ HasMessage(ops[o].chatId, ops[o].aiTs) => ~IsStreaming(AiMessage(o))
    /\ ops[o].pc \in {"fetch", "read"}
       => /\ ops[o].finalized = 0
          /\ ops[o].clears = 0
          /\ HasMessage(ops[o].chatId, ops[o].aiTs) => IsStreaming(AiMessage(o))

C3_Witness ==
  \E o, q \in OpIds :
    /\ Failed(o) /\ ops[o].clears = 2 /\ ops[o].finalized = 1
    /\ Succeeded(q) /\ ops[q].clears = 1 /\ ops[q].finalized = 1
    /\ HasMessage(ops[o].chatId, ops[o].aiTs)
    /\ HasMessage(ops[q].chatId, ops[q].aiTs)

StreamingCount(chat) ==
  Cardinality({j \in 1..Len(chat.messages) : IsStreaming(chat.messages[j])})

(* C4: every chat holds at most one message that is streaming.  Two calls  *)
(* of sendMessage on one chat, the second before the first has returned,   *)
(* leave two placeholders streaming; the guard of the Chat component does  *)
(* not prevent it either (SpecUI), being lost when the component remounts. *)
C4_OneStreaming ==
  \A i \in 1..Len(chats) : StreamingCount(chats[i]) <= 1

(* C5: a sendMessage whose chatId names no chat of the store throws "Chat  *)
(* not found" and changes nothing: the store, the persisted record and     *)
(* the invocations in flight are as before, and an invocation goes on to   *)
(* the request only for a chatId that names a chat.                        *)
C5_UnknownChat ==
  [][/\ outcome' = "Chat not found"
        => UNCHANGED <<chats, currentChatId, tokenSpeed, storage, ops, uuid>>
     /\ \A o \in OpIds :
          (ops[o].pc = "idle" /\ ops'[o].pc # "idle")
          => ops'[o].chatId \in ChatIds(chats)]_vars

C5_Witness ==
  /\ outcome = "Chat not found"
  /\ chats # <<>>
  /\ currentChatId \in ChatIds(chats)
  /\ InFlight # {}

(* C8: a step of a sendMessage whose chat is no longer in the store        *)
(* (a delta, the error marking, the finalize) leaves the list of chats as  *)
(* it is: the deleted chat does not come back and no other chat changes.   *)
C8_DeletedChatNoOp ==
  [][\A o \in OpIds :
       (/\ ops[o].pc \in {"fetch", "read"}
        /\ ops'[o] # ops[o]
        /\ ops[o].chatId \notin ChatIds(chats))
       => chats' = chats]_vars

C8_Witness ==
  \E o \in OpIds :
    /\ Returned(o)
    /\ {"delta", "finalize"} \subseteq ops[o].orphaned
    /\ chats # <<>>

(* The chats with every streaming flag that was true set to false.         *)
Reconciled(chs) ==
  [i \in 1..Len(chs) |->
     [chs[i] EXCEPT !.messages =
        [j \in 1..Len(@) |->
           IF IsStreaming(@[j]) THEN Spread(@[j], "isStreaming", FALSE) ELSE @[j]]]]

(* C9: the store hydrated from the persisted record has the chats and the  *)
(* currentChatId the store had when the record was written, except that a  *)
(* message that was streaming then is not streaming after the load.        *)
C9_RoundTrip ==
  [][outcome' = "hydrated"
     => /\ chats' = Reconciled(chats)
        /\ currentChatId' = currentChatId]_vars

(* What the load does: the middleware stores the whole state and merges   *)
(* it back as it is, the streaming flags included.                         *)
RoundTripVerbatim ==
  [][outcome' = "hydrated"
     => /\ chats' = chats
        /\ currentChatId' = currentChatId
        /\ tokenSpeed' = tokenSpeed]_vars

Quiescent == InFlight = {} /\ \A o \in OpIds : ~ops[o].pending

(* C10, as claimed: after a sendMessage returned, its debounce timer fires *)
(* and writes 0 to tokenSpeed; it writes no nonzero speed after the        *)
(* return; and when no sendMessage is in flight (each one returned, or was *)
(* cut off by the page being closed) and no timer is armed, tokenSpeed is  *)
(* 0.  A stream that is cut off runs no finally block, and the speed it    *)
(* wrote last is in the persisted record that the next page load merges    *)
(* back.                                                                   *)
C10_SpeedReset ==
  /\ \A o \in OpIds : Returned(o) ~> ops[o].reset
  /\ [](\A o \in OpIds : ~ops[o].stale)
  /\ [](\A o \in OpIds : (Returned(o) /\ ops[o].pending) => ops[o].lastArgs = 0)
  /\ [](Quiescent => tokenSpeed = 0)

(* C11: a createChat whose model is empty or absent throws and leaves the *)
(* store as it is: chats, currentChatId, the persisted record; nothing is  *)
(* returned; and no chat of the store has an empty model, so none was      *)
(* created by such a call.                                                 *)
C11_NoModel ==
  [][/\ outcome' = "No model selected"
        => /\ UNCHANGED <<chats, currentChatId, tokenSpeed, storage, uuid>>
           /\ returned' = NoChat
     /\ \A i \in 1..Len(chats') : chats'[i].model # ""]_vars

C11_Witness ==
  /\ outcome = "No model selected"
  /\ Len(chats) >= 2
  /\ currentChatId \in ChatIds(chats)
  /\ currentChatId # Head(chats).id

(* The identifiers in use: the chats and the keys of their messages.       *)
KeysInUse(chs) ==
  ChatIds(chs) \cup
  UNION {{Get(chs[i].messages[j], "timestamp") : j \in 1..Len(chs[i].messages)} :
           i \in 1..Len(chs)}

(* C12: a createChat with a model returns an identifier that no chat and   *)
(* no message had; the store then lists, first, a chat with this           *)
(* identifier, the model given and no message, and after it the chats it   *)
(* had, in their order and unchanged; currentChatId is the identifier      *)
(* returned.  The identifiers of the chats listed are distinct.            *)
C12_CreatedFirst ==
  [][/\ returned' # NoChat
        => /\ returned' \notin KeysInUse(chats)
           /\ chats' # <<>>
           /\ Head(chats').id = returned'
           /\ Head(chats').messages = <<>>
           /\ Head(chats').model # ""
           /\ Tail(chats') = chats
           /\ currentChatId' = returned'
           /\ outcome' = ""
     /\ \A i, j \in 1..Len(chats') : chats'[i].id = chats'[j].id => i = j]_vars

C12_Witness ==
  /\ returned # NoChat
  /\ Len(chats) >= 3
  /\ currentChatId = Head(chats).id
  /\ returned = Head(chats).id
  /\ \E i \in 2..Len(chats) : chats[i].messages # <<>>

(* The messages of a chat, none when the chat is not in the store.         *)
MessagesOf(chs, chatId) ==
  IF chatId \in ChatIds(chs) THEN FindChat(chs, chatId).messages ELSE <<>>

UserMessageOf(o) ==
  <<<<"text", ops[o].messageText>>, <<"sender", "user">>,
    <<"timestamp", ops[o].userTs>>>>

(* C13: the step of sendMessage that opens the request has appended to the *)
(* chat exactly two messages, the user message with the text given and     *)
(* then the placeholder (text "", isStreaming true), so both are in the    *)
(* store while the request is pending; and as long as the chat exists the  *)
(* two stay there, the placeholder right after the user message, whether   *)
(* the request fails or not.                                               *)
C13_TwoAppended ==
  /\ [][\A o \in OpIds :
          (ops[o].pc = "idle" /\ ops'[o].pc = "fetch")
          => /\ ops'[o].chatId \in ChatIds(chats)
             /\ MessagesOf(chats', ops'[o].chatId)
                  = MessagesOf(chats, ops'[o].chatId)
                    \o <<<<<<"text", ops'[o].messageText>>,
                           <<"sender", "user">>,
                           <<"timestamp", ops'[o].userTs>>>>,
                         <<<<"text", "">>, <<"sender", "ai">>,
                           <<"timestamp", ops'[o].aiTs>>,
                           <<"isStreaming", TRUE>>>>>>
             /\ ops'[o].userTs # ops'[o].aiTs
             /\ {ops'[o].userTs, ops'[o].aiTs} \cap KeysInUse(chats) = {}]_vars
  /\ [](\A o \in Started :
          ops[o].chatId \in ChatIds(chats)
          => \E j \in 1..(Len(MessagesOf(chats, ops[o].chatId)) - 1) :
               /\ MessagesOf(chats, ops[o].chatId)[j] = UserMessageOf(o)
               /\ Get(MessagesOf(chats, ops[o].chatId)[j + 1], "timestamp") = ops[o].aiTs
               /\ Get(MessagesOf(chats, ops[o].chatId)[j + 1], "sender") = "ai")

C13_Witness ==
  \E o \in OpIds :
    /\ Failed(o)
    /\ ops[o].deltas = <<>>
    /\ Len(MessagesOf(chats, ops[o].chatId)) >= 3
    /\ MessagesOf(chats, ops[o].chatId)[Len(MessagesOf(chats, ops[o].chatId)) - 1]
         = UserMessageOf(o)
    /\ Get(AiMessage(o), "text") = "Error: Failed to fetch"

(* The turn of the wire format for a message of the store.                 *)
TurnOf(msg) ==
  IF Get(msg, "sender") = "user"
  THEN [role |-> "user", content |-> Get(msg, "text")]
  ELSE [role |-> "assistant", content |-> Get(msg, "text")]

(* C14: the request of a sendMessage lists one turn for each message the   *)
(* chat had before the call, in order, a user's message as role "user" and *)
(* any other as role "assistant", and then one turn of role "user" with    *)
(* the text given: one turn more than the chat had messages, so neither    *)
(* the user message appended by the call nor its placeholder is listed.    *)
C14_RequestBody ==
  [][\A o \in OpIds :
       (ops[o].pc = "idle" /\ ops'[o].pc = "fetch")
       => LET before == MessagesOf(chats, ops'[o].chatId)
              turns == ops'[o].request.messages
          IN  /\ Len(turns) = Len(before) + 1
              /\ \A j \in 1..Len(before) : turns[j] = TurnOf(before[j])
              /\ turns[Len(turns)]
                   = [role |-> "user", content |-> ops'[o].messageText]
              /\ ops'[o].request.model = FindChat(chats, ops'[o].chatId).model
              /\ ops'[o].request.stream
              /\ Len(MessagesOf(chats', ops'[o].chatId)) = Len(turns) + 1]_vars

C14_Witness ==
  \E o \in OpIds :
    /\ ops[o].pc = "fetch"
    /\ Len(ops[o].request.messages) = 3
    /\ ops[o].request.messages[1] = [role |-> "user", content |-> "hi"]
    /\ ops[o].request.messages[2] = [role |-> "assistant", content |-> "a"]
    /\ ops[o].request.messages[3] = [role |-> "user", content |-> "hi"]
    /\ Len(MessagesOf(chats, ops[o].chatId)) = 4

(* The chats of a list other than the one named, in their order.           *)
Others(chs, chatId) ==
  LET keep == {i \in 1..Len(chs) : chs[i].id # chatId}
      Nth(k) == CHOOSE i \in keep : Cardinality({h \in keep : h < i}) = k - 1
  IN  [k \in 1..Cardinality(keep) |-> chs[Nth(k)]]

(* C15, as claimed: deleteChat(chatId) removes the chat named and no       *)
(* other, the others keep their order and content; currentChatId becomes   *)
(* null if it was chatId and is unchanged otherwise; and when chatId names *)
(* no chat, chats and currentChatId are as before.                         *)
C15_DeleteExact ==
  [][\A c \in IdInputs :
       DeleteChat(c)
       => /\ chats' = Others(chats, c)
          /\ currentChatId' = (IF currentChatId = c THEN NoChat ELSE currentChatId)
          /\ c \notin ChatIds(chats) => UNCHANGED <<chats, currentChatId>>]_vars

(* C15, amended: as above, but when chatId names no chat only chats is as  *)
(* before: a currentChatId equal to chatId, which then names no chat       *)
(* either, is cleared all the same.                                        *)
C15_DeleteChat ==
  [][\A c \in IdInputs :
       DeleteChat(c)
       => /\ chats' = Others(chats, c)
          /\ c \notin ChatIds(chats')
          /\ currentChatId' = (IF currentChatId = c THEN NoChat ELSE currentChatId)
          /\ c \notin ChatIds(chats) => chats' = chats
          /\ (c \notin ChatIds(chats) /\ currentChatId # c)
             => UNCHANGED <<chats, currentChatId, tokenSpeed, storage>>
          /\ outcome' = ""]_vars

C15_Witness ==
  /\ Len(chats) >= 2
  /\ currentChatId = NoChat
  /\ \E k \in 1..uuid : k \notin KeysInUse(chats) /\ k > Head(chats).id
  /\ \A i \in 1..Len(chats) : chats[i].messages # <<>>

(* C16: the step that ends a fetchModels call, however the request went,   *)
(* leaves loadingModels false and throws nothing; when the request failed  *)
(* (a rejection, a non-2xx status, a body that is not JSON) the message of *)
(* the error is in apiError and availableModels is as before; when it      *)
(* succeeded availableModels is the catalog returned.  No step of the call *)
(* throws.                                                                 *)
C16_FetchModels ==
  [][\A f \in FetchIds :
       /\ (fetches[f] \in {"fetch", "json"} /\ fetches'[f] \in {"done", "failed"})
          => /\ loadingModels' = FALSE
             /\ outcome' = ""
       /\ (fetches[f] \in {"fetch", "json"} /\ fetches'[f] = "failed")
          => /\ \E e \in ModelsErrors \cup JsonErrors : apiError' = <<e>>
             /\ availableModels' = availableModels
       /\ \A e \in ModelsErrors : ModelsResponseFail(f, e) => apiError' = <<e>>
       /\ \A e \in JsonErrors : ModelsJsonFail(f, e) => apiError' = <<e>>
       /\ \A d \in Catalogs :
            ModelsJsonOk(f, d)
            => /\ availableModels' = d.models
               /\ apiError' = apiError
               /\ fetches'[f] = "done"
       /\ fetches'[f] # fetches[f]
          => /\ outcome' = ""
             /\ UNCHANGED <<chats, currentChatId, tokenSpeed>>]_vars

C16_Witness ==
  /\ fetches[1] = "done"
  /\ fetches[2] = "failed"
  /\ fetches[3] = "failed"
  /\ loadingModels = FALSE
  /\ apiError = <<"Unexpected token">>
  /\ availableModels = <<"m1", "m2">>

(* The keys of the messages of a list, in order.                           *)
KeysOf(messages) == [j \in 1..Len(messages) |-> Get(messages[j], "timestamp")]

IsPrefix(s, t) == Len(s) <= Len(t) /\ SubSeq(t, 1, Len(s)) = s

(* C17: over every step, the keys of the messages of a chat that is in the *)
(* store before and after the step are, after it, the keys before it       *)
(* followed by the keys of the messages the step appended: no message is   *)
(* removed, moved or given another key.  (The keys of a chat need not be   *)
(* distinct: addMessage appends a message with any key.)                   *)
C17_AppendOrder ==
  [][\A c \in ChatIds(chats) \cap ChatIds(chats') :
       IsPrefix(KeysOf(MessagesOf(chats, c)), KeysOf(MessagesOf(chats', c)))]_vars

(* A stream that failed after a delta, on a chat to which addMessage       *)
(* appended a message with the key of the placeholder.                     *)
C17_Witness ==
  \E o \in OpIds :
    /\ Failed(o)
    /\ ops[o].deltas # <<>>
    /\ Len(chats) = 1
    /\ KeysOf(MessagesOf(chats, ops[o].chatId))
         = <<ops[o].userTs, ops[o].aiTs, ops[o].aiTs>>
    /\ Get(MessagesOf(chats, ops[o].chatId)[3], "sender") = "user"

(* C18: over every step, a message that is not streaming before the step   *)
(* (an assistant message that was finalized or marked with an error, a     *)
(* user message, a message that was added) is the same after it, as long   *)
(* as its chat is in the store: its text does not change and it is not     *)
(* streaming again.  Only a message that is streaming can change.  The     *)
(* steps of a stream rewrite every message that has the key of the         *)
(* placeholder, and addMessage appends a message with any key.             *)
C18_FinalTextKept ==
  [][\A c \in ChatIds(chats) \cap ChatIds(chats') :
       \A j \in 1..Len(MessagesOf(chats, c)) :
         (Get(MessagesOf(chats, c)[j], "sender") = "user"
            \/ ~IsStreaming(MessagesOf(chats, c)[j]))
         => /\ j <= Len(MessagesOf(chats', c))
            /\ MessagesOf(chats', c)[j] = MessagesOf(chats, c)[j]]_vars

(* C19: addMessage(chatId, message) on a chat of the store leaves the list *)
(* of chats as it is but for the messages of the chat named, which are the *)
(* messages it had followed by the message given, as given; currentChatId, *)
(* tokenSpeed and the catalog are unchanged.  When chatId names no chat    *)
(* the store is unchanged, and in both cases nothing is thrown.            *)
C19_AddMessage ==
  [][\A c \in IdInputs \cup {OwnKey}, m \in MessageInputs :
       AddMessage(c, m)
       => /\ Len(chats') = Len(chats)
          /\ \A i \in 1..Len(chats) :
               IF chats[i].id = c
               THEN /\ chats'[i].messages = chats[i].messages \o <<m>>
                    /\ [chats'[i] EXCEPT !.messages = <<>>]
                         = [chats[i] EXCEPT !.messages = <<>>]
               ELSE chats'[i] = chats[i]
          /\ c \notin ChatIds(chats) => chats' = chats
          /\ UNCHANGED <<currentChatId, tokenSpeed, catalog>>
          /\ outcome' = ""]_vars

(* Two chats; the older of the two was given a message with the            *)
(* identifier of the chat as its key and then a message marked as          *)
(* streaming with the same key.                                            *)
C19_Witness ==
  /\ outcome = ""
  /\ Len(chats) = 2
  /\ Len(chats[2].messages) = 2
  /\ Get(chats[2].messages[1], "sender") = "user"
  /\ Get(chats[2].messages[1], "timestamp") = chats[2].id
  /\ Get(chats[2].messages[2], "timestamp") = chats[2].id
  /\ IsStreaming(chats[2].messages[2])
  /\ chats[1].messages = <<>>
  /\ currentChatId = chats[1].id

(* C20: when the stream ended normally and what follows its last newline   *)
(* is a well-formed record, the text of the assistant message in the store *)
(* is what it would be had the record been followed by a newline: the      *)
(* concatenation of the contents of all the well-formed records, the last  *)
(* one included.  The code adds the content of the last record to its      *)
(* local aiText only, and the last set() writes isStreaming alone.         *)
C20_TrailingRecord ==
  \A o \in OpIds :
    (Succeeded(o) /\ WellFormed(LastLine(ops[o].body))
       /\ HasMessage(ops[o].chatId, ops[o].aiTs))
    => Get(AiMessage(o), "text")
         = Join(ContentDeltas(CompleteLines(ops[o].body \o <<NL>>)))

(* What a step on behalf of a sendMessage on chat a may change: the        *)
(* messages of chat a, and nothing else of the chats or of the pointer.    *)
OnlyMessagesOf(a) ==
  /\ currentChatId' = currentChatId
  /\ Len(chats') = Len(chats)
  /\ \A i \in 1..Len(chats) :
       IF chats[i].id = a
       THEN [chats'[i] EXCEPT !.messages = <<>>]
              = [chats[i] EXCEPT !.messages = <<>>]
       ELSE chats'[i] = chats[i]

(* The messages of chat a other than the one keyed ts are as they were.    *)
OnlyMessage(a, ts) ==
  \A i \in 1..Len(chats) :
    chats[i].id = a
    => /\ Len(chats'[i].messages) = Len(chats[i].messages)
       /\ \A j \in 1..Len(chats[i].messages) :
            /\ Get(chats'[i].messages[j], "timestamp") = Get(chats[i].messages[j], "timestamp")
            /\ Get(chats[i].messages[j], "timestamp") # ts
               => chats'[i].messages[j] = chats[i].messages[j]

(* C21: the call of sendMessage(a, text) and every later step of that      *)
(* invocation (the fetch resolving or failing, a chunk read, the end of    *)
(* the stream, a read error) leave currentChatId, every chat other than a, *)
(* and the number, order and fields other than messages of the chats       *)
(* unchanged; a step after the call changes no message of a but the one    *)
(* with the key of its placeholder, and the invocation keeps its chat and  *)
(* that key.  setCurrentChat(id), for an id that names a chat or not, sets *)
(* currentChatId to id and leaves the chats, tokenSpeed, the catalog and   *)
(* every invocation in flight unchanged.                                   *)
C21_StreamFrame ==
  [][/\ \A c \in ChatIds(chats), x \in TextInputs :
          SendMessage(c, x) => OnlyMessagesOf(c)
     /\ \A o \in OpIds :
          (\/ \E b \in SampleBodies : FetchOk(o, b)
           \/ FetchFail(o, "Failed to fetch")
           \/ \E n \in 1..Len(ops[o].rest) : ReadChunk(o, n)
           \/ ReadEnd(o)
           \/ \E e \in ReadErrors : ReadError(o, e))
          => /\ OnlyMessagesOf(ops[o].chatId)
             /\ OnlyMessage(ops[o].chatId, ops[o].aiTs)
             /\ ops'[o].chatId = ops[o].chatId
             /\ ops'[o].aiTs = ops[o].aiTs
     /\ \A c \in IdInputs :
          SetCurrentChat(c)
          => /\ currentChatId' = c
             /\ UNCHANGED <<chats, tokenSpeed, catalog, ops>>]_vars

(* Two chats, a stream on the older one that has delivered a delta, and    *)
(* the pointer set, after the call, to the key of the placeholder, which   *)
(* names no chat.                                                          *)
C21_Witness ==
  \E o \in OpIds :
    /\ ops[o].pc = "read"
    /\ Len(chats) = 2
    /\ ops[o].chatId = chats[2].id
    /\ currentChatId = ops[o].aiTs
    /\ currentChatId \notin ChatIds(chats)
    /\ Get(AiMessage(o), "text") = "a"
    /\ chats[1].messages = <<>>

(* The emission requests of invocation o were made more than 500 ms after  *)
(* the stream started and more than 500 ms after one another.              *)
RequestsApart(o) ==
  \A i \in 1..Len(ops[o].emitTimes) :
    ops[o].emitTimes[i]
      - (IF i = 1 THEN ops[o].startTime ELSE ops[o].emitTimes[i - 1])
      > SpeedInterval

(* C22, as claimed: during a stream an emission of the rate is requested   *)
(* only more than 500 ms after the stream started or after the previous    *)
(* request of that stream, and any two consecutive nonzero writes of       *)
(* tokenSpeed by the stream are more than 500 ms apart.  A write is made   *)
(* by the debounce timer, 200 ms after its request or later: a timer that  *)
(* is late brings its write nearer to the next one.                        *)
C22_WritesApart ==
  \A o \in OpIds :
    /\ RequestsApart(o)
    /\ \A i \in 2..Len(ops[o].writeTimes) :
         ops[o].writeTimes[i] - ops[o].writeTimes[i - 1] > SpeedInterval

(* C22: during a stream an emission of the rate is requested only more     *)
(* than 500 ms after the stream started or after the previous request of   *)
(* that stream.  Every nonzero write of tokenSpeed by the stream is made   *)
(* at least 200 ms after a request that is not earlier than the previous   *)
(* nonzero write, so any two consecutive nonzero writes of the stream are  *)
(* at least 200 ms apart.                                                  *)
C22_RateLimit ==
  \A o \in OpIds :
    /\ RequestsApart(o)
    /\ \A i \in 1..Len(ops[o].writeTimes) :
         \E j \in 1..Len(ops[o].emitTimes) :
           /\ ops[o].writeTimes[i] - ops[o].emitTimes[j] >= DebounceWait
           /\ i > 1 => ops[o].writeTimes[i - 1] <= ops[o].emitTimes[j]
    /\ \A i \in 2..Len(ops[o].writeTimes) :
         ops[o].writeTimes[i] - ops[o].writeTimes[i - 1] >= DebounceWait

(* A stream in progress that wrote two nonzero speeds no more than 500 ms  *)
(* apart, after two requests.                                              *)
C22_Witness ==
  /\ ops[1].pc = "read"
  /\ Len(ops[1].emitTimes) = 2
  /\ Len(ops[1].writeTimes) = 2
  /\ ops[1].writeTimes[2] - ops[1].writeTimes[1] <= SpeedInterval
  /\ tokenSpeed # 0
(* C23: with calls of fetchModels that overlap, loadingModels is true in   *)
(* every state in which a call is still in flight (awaiting the response   *)
(* or its body), and apiError is null when the call that completed last    *)
(* succeeded.  Between two completions apiError changes only to null, at   *)
(* the start of a call, so the second part is stated on the step in which  *)
(* a call succeeds.  The finally block of the call that completes first    *)
(* clears loadingModels, and a success writes availableModels alone.       *)
C23_Overlapping ==
  /\ []((\E f \in FetchIds : fetches[f] \in {"fetch", "json"}) => loadingModels)
  /\ [][\A f \in FetchIds, d \in Catalogs :
          ModelsJsonOk(f, d) => apiError' = <<>>]_vars

====
